---- MODULE Spec2Model ----
(***************************************************************************)
(* vcardai: a business-card image is classified and transcribed by an      *)
(* external model (POST /upload), and a contact record is serialized as a  *)
(* vCard 3.0 document (POST /generate-vcf).  Two deployments exist: the    *)
(* serverless handlers under api/ and the FastAPI application under        *)
(* backend/.                                                               *)
(*                                                                         *)
(* Text is a TLA+ string; TLC evaluates Len, \o and SubSeq on strings.     *)
(* SANY cannot lex a backquote inside a string literal, so the backquote   *)
(* character of the source is written ^ throughout (BACKTICK below); no    *)
(* input text uses ^ for anything else.                                    *)
(***************************************************************************)
EXTENDS Integers, Sequences, FiniteSets, TLC

(***************************************************************************)
(* Bounds of the input space.                                              *)
(***************************************************************************)
MaxTitles == 2
MaxPhones == 2

(***************************************************************************)
(* Python str operations used by the source.                               *)
(***************************************************************************)
BACKTICK == "^"

Char(s, i) == SubSeq(s, i, i)

\* str.strip() with no argument removes these (the ASCII whitespace that
\* the inputs of this model can contain).
Whitespace == {" ", "\n", "\t", "\r"}

UpperCase == "ABCDEFGHIJKLMNOPQRSTUVWXYZ"
LowerCase == "abcdefghijklmnopqrstuvwxyz"

lower_char(c) ==
    IF \E i \in 1..Len(UpperCase) : Char(UpperCase, i) = c
    THEN Char(LowerCase, CHOOSE i \in 1..Len(UpperCase) : Char(UpperCase, i) = c)
    ELSE c

RECURSIVE lower(_)
lower(s) == IF s = "" THEN "" ELSE lower_char(Char(s, 1)) \o lower(SubSeq(s, 2, Len(s)))

RECURSIVE lstrip_chars(_, _)
lstrip_chars(s, chars) ==
    IF s # "" /\ Char(s, 1) \in chars THEN lstrip_chars(SubSeq(s, 2, Len(s)), chars) ELSE s

RECURSIVE rstrip_chars(_, _)
rstrip_chars(s, chars) ==
    IF s # "" /\ Char(s, Len(s)) \in chars
    THEN rstrip_chars(SubSeq(s, 1, Len(s) - 1), chars)
    ELSE s

strip_chars(s, chars) == rstrip_chars(lstrip_chars(s, chars), chars)

strip(s) == strip_chars(s, Whitespace)

startswith(s, prefix) ==
    Len(s) >= Len(prefix) /\ SubSeq(s, 1, Len(prefix)) = prefix

\* Whether sep occurs in s at position i.
OccursAt(s, sep, i) ==
    i >= 1 /\ i + Len(sep) - 1 <= Len(s) /\ SubSeq(s, i, i + Len(sep) - 1) = sep

Occurrences(s, sep) == {i \in 1..Len(s) : OccursAt(s, sep, i)}

Contains(s, sep) == Occurrences(s, sep) # {}

Max(S) == CHOOSE m \in S : \A n \in S : n <= m
Min(S) == CHOOSE m \in S : \A n \in S : m <= n

\* s.split(sep)[-1]: the text after the last occurrence of sep, the whole
\* text when sep does not occur.
split_last(s, sep) ==
    IF Contains(s, sep)
    THEN SubSeq(s, Max(Occurrences(s, sep)) + Len(sep), Len(s))
    ELSE s

\* s.split(sep, 1): the parts around the first occurrence of sep, a single
\* part when sep does not occur.
split_once(s, sep) ==
    IF Contains(s, sep)
    THEN LET i == Min(Occurrences(s, sep))
         IN  <<SubSeq(s, 1, i - 1), SubSeq(s, i + Len(sep), Len(s))>>
    ELSE <<s>>

\* The k-th smallest element of a set P of positions.
Kth(P, k) == CHOOSE p \in P : Cardinality({q \in P : q < p}) = k - 1

\* The parts of s that the separators at the positions P delimit.
parts_between(s, P) ==
    [k \in 1..(Cardinality(P) + 1) |->
        SubSeq(s,
               IF k = 1 THEN 1 ELSE Kth(P, k - 1) + 1,
               IF k = Cardinality(P) + 1 THEN Len(s) ELSE Kth(P, k) - 1)]

\* s.split(sep): every part, for a separator of one character.
split(s, sep) == parts_between(s, {i \in 1..Len(s) : Char(s, i) = sep})

\* s.replace(old, new) for a single character old.
RECURSIVE replace(_, _, _)
replace(s, old, new) ==
    IF s = "" THEN ""
    ELSE (IF Char(s, 1) = old THEN new ELSE Char(s, 1))
         \o replace(SubSeq(s, 2, Len(s)), old, new)

\* sep.join(lines)
RECURSIVE join(_, _)
join(sep, lines) ==
    IF lines = <<>> THEN ""
    ELSE IF Len(lines) = 1 THEN lines[1]
    ELSE lines[1] \o sep \o join(sep, Tail(lines))

(***************************************************************************)
(* json.loads.  A JSON value is a record with one field naming its type:   *)
(* [str |-> text], [num |-> literal], [bool |-> b], [null |-> TRUE],       *)
(* [arr |-> sequence of values], [obj |-> function from keys to values].   *)
(* A parse step returns [ok, val, next]: next is the position after the    *)
(* value.  String escapes other than \" \\ \/ \n \t \r are rejected; no    *)
(* input of this model uses them.                                          *)
(***************************************************************************)
JStr(s) == [str |-> s]
JArr(a) == [arr |-> a]
JObj(f) == [obj |-> f]
JNull == [null |-> TRUE]

EmptyDict == [k \in {} |-> JNull]

ParseFail == [ok |-> FALSE, val |-> JNull, next |-> 0]
ParseOk(v, n) == [ok |-> TRUE, val |-> v, next |-> n]

Digits == {"0", "1", "2", "3", "4", "5", "6", "7", "8", "9"}

RECURSIVE SkipWs(_, _)
SkipWs(s, i) == IF i <= Len(s) /\ Char(s, i) \in Whitespace THEN SkipWs(s, i + 1) ELSE i

Unescape(c) ==
    CASE c = "n" -> "\n"
      [] c = "t" -> "\t"
      [] c = "r" -> "\r"
      [] OTHER -> c

\* i is the position after the opening quote; acc is the text read so far.
RECURSIVE ParseStringBody(_, _, _)
ParseStringBody(s, i, acc) ==
    IF i > Len(s) THEN ParseFail
    ELSE IF Char(s, i) = "\"" THEN ParseOk(JStr(acc), i + 1)
    ELSE IF Char(s, i) \in {"\n", "\t", "\r"} THEN ParseFail
    ELSE IF Char(s, i) = "\\"
         THEN IF i + 1 <= Len(s) /\ Char(s, i + 1) \in {"\"", "\\", "/", "n", "t", "r"}
              THEN ParseStringBody(s, i + 2, acc \o Unescape(Char(s, i + 1)))
              ELSE ParseFail
    ELSE ParseStringBody(s, i + 1, acc \o Char(s, i))

RECURSIVE ScanDigits(_, _)
ScanDigits(s, i) == IF i <= Len(s) /\ Char(s, i) \in Digits THEN ScanDigits(s, i + 1) ELSE i

\* An integer literal: -? (0 | [1-9][0-9]*), from its first digit at start
\* to stop.  Fractions and exponents are not among the inputs of this model.
NumberFrom(s, i, start, stop) ==
    IF stop = start THEN ParseFail ELSE ParseOk([num |-> SubSeq(s, i, stop - 1)], stop)

DigitsFrom(s, i, start) ==
    NumberFrom(s, i, start,
               IF start <= Len(s) /\ Char(s, start) = "0" THEN start + 1 ELSE ScanDigits(s, start))

ParseNumber(s, i) == DigitsFrom(s, i, IF Char(s, i) = "-" THEN i + 1 ELSE i)

\* d with key bound to value: a repeated key keeps its last value.
Put(d, key, value) == [x \in DOMAIN d \cup {key} |-> IF x = key THEN value ELSE d[x]]

RECURSIVE ParseValue(_, _)
RECURSIVE ParseElements(_, _, _)
RECURSIVE ElementsAfterValue(_, _, _)
RECURSIVE ElementsNext(_, _, _)
RECURSIVE ParseMembers(_, _, _)
RECURSIVE MembersAfterKey(_, _, _)
RECURSIVE MembersAfterColon(_, _, _, _)
RECURSIVE MembersAfterValue(_, _, _, _)
RECURSIVE MembersNext(_, _, _)

\* j is the position after "{" (whitespace skipped).
ObjectFrom(s, j) ==
    IF j <= Len(s) /\ Char(s, j) = "}" THEN ParseOk(JObj(EmptyDict), j + 1)
    ELSE ParseMembers(s, j, EmptyDict)

\* j is the position after "[" (whitespace skipped).
ArrayFrom(s, j) ==
    IF j <= Len(s) /\ Char(s, j) = "]" THEN ParseOk(JArr(<<>>), j + 1)
    ELSE ParseElements(s, j, <<>>)

\* i is the position of the value's first character (whitespace skipped).
ParseValue(s, i) ==
    IF i > Len(s) THEN ParseFail
    ELSE IF Char(s, i) = "\"" THEN ParseStringBody(s, i + 1, "")
    ELSE IF Char(s, i) = "{" THEN ObjectFrom(s, SkipWs(s, i + 1))
    ELSE IF Char(s, i) = "[" THEN ArrayFrom(s, SkipWs(s, i + 1))
    ELSE IF Char(s, i) \in Digits \cup {"-"} THEN ParseNumber(s, i)
    ELSE IF OccursAt(s, "null", i) THEN ParseOk(JNull, i + 4)
    ELSE IF OccursAt(s, "true", i) THEN ParseOk([bool |-> TRUE], i + 4)
    ELSE IF OccursAt(s, "false", i) THEN ParseOk([bool |-> FALSE], i + 5)
    ELSE ParseFail

\* i is the position of the next element; acc holds the elements read.
ParseElements(s, i, acc) == ElementsAfterValue(s, acc, ParseValue(s, i))

\* v is the element just parsed.
ElementsAfterValue(s, acc, v) ==
    IF ~v.ok THEN ParseFail ELSE ElementsNext(s, Append(acc, v.val), SkipWs(s, v.next))

\* j is the position of the "," or "]" that follows an element.
ElementsNext(s, acc, j) ==
    IF j > Len(s) THEN ParseFail
    ELSE IF Char(s, j) = "," THEN ParseElements(s, SkipWs(s, j + 1), acc)
    ELSE IF Char(s, j) = "]" THEN ParseOk(JArr(acc), j + 1)
    ELSE ParseFail

\* i is the position of the next key; acc holds the members read.
ParseMembers(s, i, acc) ==
    IF i > Len(s) \/ Char(s, i) # "\"" THEN ParseFail
    ELSE MembersAfterKey(s, acc, ParseStringBody(s, i + 1, ""))

\* k is the key just parsed.
MembersAfterKey(s, acc, k) ==
    IF ~k.ok THEN ParseFail ELSE MembersAfterColon(s, acc, k.val.str, SkipWs(s, k.next))

\* c is the position of the ":" that follows the key.
MembersAfterColon(s, acc, key, c) ==
    IF c > Len(s) \/ Char(s, c) # ":" THEN ParseFail
    ELSE MembersAfterValue(s, acc, key, ParseValue(s, SkipWs(s, c + 1)))

\* v is the member's value just parsed.
MembersAfterValue(s, acc, key, v) ==
    IF ~v.ok THEN ParseFail ELSE MembersNext(s, Put(acc, key, v.val), SkipWs(s, v.next))

\* j is the position of the "," or "}" that follows a member.
MembersNext(s, acc, j) ==
    IF j > Len(s) THEN ParseFail
    ELSE IF Char(s, j) = "," THEN ParseMembers(s, SkipWs(s, j + 1), acc)
    ELSE IF Char(s, j) = "}" THEN ParseOk(JObj(acc), j + 1)
    ELSE ParseFail

\* v is the value parsed from the start of text: trailing text that is not
\* whitespace fails the parse.
WholeText(text, v) ==
    IF v.ok /\ SkipWs(text, v.next) = Len(text) + 1
    THEN [ok |-> TRUE, val |-> v.val]
    ELSE [ok |-> FALSE, val |-> JNull]

\* json.loads(text): [ok |-> TRUE, val |-> value], or ok = FALSE where the
\* source raises json.JSONDecodeError.
json_loads(text) == WholeText(text, ParseValue(text, SkipWs(text, 1)))

(***************************************************************************)
(* Python values as the handlers see them.                                 *)
(***************************************************************************)
IsStr(v)  == "str" \in DOMAIN v
IsArr(v)  == "arr" \in DOMAIN v
IsObj(v)  == "obj" \in DOMAIN v
IsNull(v) == "null" \in DOMAIN v

\* bool(v): what `if v` and `not v` test.
Truthy(v) ==
    CASE IsStr(v)  -> v.str # ""
      [] IsArr(v)  -> v.arr # <<>>
      [] IsObj(v)  -> DOMAIN v.obj # {}
      [] IsNull(v) -> FALSE
      [] "num" \in DOMAIN v  -> v.num \notin {"0", "-0"}
      [] "bool" \in DOMAIN v -> v.bool

\* f"{v}" for the scalar values; containers are not formatted by any input
\* of this model.
Format(v) ==
    CASE IsStr(v)  -> v.str
      [] IsNull(v) -> "None"
      [] "num" \in DOMAIN v  -> v.num
      [] "bool" \in DOMAIN v -> IF v.bool THEN "True" ELSE "False"
      [] OTHER -> "?"

\* d.get(key) and d.get(key, default) of a dict d (a function from keys).
Get(d, key) == IF key \in DOMAIN d THEN d[key] ELSE JNull
GetOr(d, key, default) == IF key \in DOMAIN d THEN d[key] ELSE default

\* `for x in v`: the items, or ok = FALSE where Python raises TypeError.
Iterate(v) ==
    IF IsArr(v) THEN [ok |-> TRUE, items |-> v.arr]
    ELSE IF IsStr(v) THEN [ok |-> TRUE, items |-> [i \in 1..Len(v.str) |-> JStr(Char(v.str, i))]]
    ELSE [ok |-> FALSE, items |-> <<>>]

Returned(v) == [ok |-> TRUE, val |-> v, exc |-> ""]
Raised(e)   == [ok |-> FALSE, val |-> JNull, exc |-> e]

(***************************************************************************)
(* The phonenumbers library, as normalize_phone_numbers uses it, for       *)
(* numbers of Bangladesh (country code 880, national prefix 0, mobile      *)
(* numbers 1[3-9] followed by eight digits) and of the North American      *)
(* plan (country code 1, ten digits, the first of them 2..9).              *)
(***************************************************************************)
Punctuation == {" ", "-", "(", ")", "."}

RECURSIVE remove_chars(_, _)
remove_chars(s, chars) ==
    IF s = "" THEN ""
    ELSE (IF Char(s, 1) \in chars THEN "" ELSE Char(s, 1))
         \o remove_chars(SubSeq(s, 2, Len(s)), chars)

AllDigits(s) == \A i \in 1..Len(s) : Char(s, i) \in Digits

CountryCodeOf(region) == IF region = "BD" THEN "880" ELSE "1"
NationalPrefixOf(cc)  == IF cc = "880" THEN "0" ELSE "1"

\* A number written with its country code; d is what follows the "+".
parse_international(d) ==
    IF Len(d) < 3 \/ Len(d) > 17 \/ ~AllDigits(d) THEN Raised("NumberParseException")
    ELSE IF startswith(d, "880")
         THEN Returned([country_code |-> "880", national_number |-> SubSeq(d, 4, Len(d))])
    ELSE IF startswith(d, "1")
         THEN Returned([country_code |-> "1", national_number |-> SubSeq(d, 2, Len(d))])
    ELSE Raised("NumberParseException")

\* A number written without country code: that of the default region, the
\* national prefix dropped.
parse_national(body, cc) ==
    IF Len(body) < 3 \/ Len(body) > 17 \/ ~AllDigits(body) THEN Raised("NumberParseException")
    ELSE Returned([country_code |-> cc,
                   national_number |-> IF startswith(body, NationalPrefixOf(cc))
                                       THEN SubSeq(body, 2, Len(body)) ELSE body])

parse_body(body, default_region) ==
    IF startswith(body, "+") THEN parse_international(SubSeq(body, 2, Len(body)))
    ELSE parse_national(body, CountryCodeOf(default_region))

\* phonenumbers.parse(num, default_region): a parsed number
\* [country_code, national_number], or ok = FALSE for NumberParseException.
phonenumbers_parse(num, default_region) ==
    parse_body(remove_chars(num, Punctuation), default_region)

\* phonenumbers.is_valid_number(parsed)
phonenumbers_is_valid_number(parsed) ==
    /\ Len(parsed.national_number) = 10
    /\ IF parsed.country_code = "880"
       THEN /\ Char(parsed.national_number, 1) = "1"
            /\ Char(parsed.national_number, 2) \in {"3", "4", "5", "6", "7", "8", "9"}
       ELSE Char(parsed.national_number, 1) \notin {"0", "1"}

\* phonenumbers.format_number(parsed, PhoneNumberFormat.E164)
phonenumbers_format_E164(parsed) == "+" \o parsed.country_code \o parsed.national_number

(***************************************************************************)
(* normalize_phone_numbers (api/generate-vcf.py; backend/app.py holds the  *)
(* same text).  numbers is the sequence being iterated.                    *)
(***************************************************************************)
\* Mutant: the validity check is left out.
append_unchecked(normalized, parsed) ==
    IF ~parsed.ok THEN normalized
    ELSE Append(normalized, phonenumbers_format_E164(parsed.val))

\* The body of the try, parsed being what phonenumbers.parse did: a number
\* that parses and is valid is appended in E.164 format.
append_if_valid(normalized, parsed) ==
    IF ~parsed.ok THEN normalized
    ELSE IF phonenumbers_is_valid_number(parsed.val)
         THEN Append(normalized, phonenumbers_format_E164(parsed.val))
         ELSE normalized

\* One turn of the loop.  phonenumbers.parse raises for an entry that is no
\* string; the except clause swallows every Exception.
normalize_one(normalized, num, default_region) ==
    IF ~IsStr(num) THEN normalized
    ELSE append_if_valid(normalized, phonenumbers_parse(num.str, default_region))

RECURSIVE normalize_loop(_, _, _)
normalize_loop(normalized, numbers, default_region) ==
    IF numbers = <<>> THEN normalized
    ELSE normalize_loop(normalize_one(normalized, Head(numbers), default_region),
                        Tail(numbers), default_region)

normalize_phone_numbers(numbers) == normalize_loop(<<>>, numbers, "BD")

(***************************************************************************)
(* create_vcf_content (api/generate-vcf.py; backend/app.py holds the same  *)
(* text).  contact_info is a dict.  The result is Returned(text), or       *)
(* Raised(exception) where a value has a type the code cannot handle.      *)
(***************************************************************************)
\* name.split(" ", 1) and the two lines made of it.
name_split_lines(name, parts) ==
    <<"N:" \o (IF Len(parts) > 1 THEN parts[2] ELSE "") \o ";" \o parts[1] \o ";;;",
      "FN:" \o name>>

name_value_lines(name) ==
    IF ~Truthy(name) THEN Returned(<<>>)
    ELSE IF ~IsStr(name) THEN Raised("AttributeError")
    ELSE Returned(name_split_lines(name.str, split_once(name.str, " ")))

name_lines(contact_info) == name_value_lines(Get(contact_info, "name"))

title_item_lines(titles) ==
    IF ~titles.ok THEN Raised("TypeError")
    ELSE Returned([i \in 1..Len(titles.items) |-> "TITLE:" \o Format(titles.items[i])])

title_lines(contact_info) ==
    title_item_lines(Iterate(GetOr(contact_info, "titles", JArr(<<>>))))

\* Mutant: the line is written whether or not the field has a value.
unconditional_line(tag, v) == <<tag \o Format(v)>>

\* `if v := contact_info.get(key)`: one line when v is truthy.
optional_line(tag, v) == IF Truthy(v) THEN <<tag \o Format(v)>> ELSE <<>>

org_lines(contact_info) == optional_line("ORG:", Get(contact_info, "organization"))

tel_lines(phones) == [i \in 1..Len(phones) |-> "TEL;TYPE=CELL:" \o phones[i]]

phone_item_lines(numbers) ==
    IF ~numbers.ok THEN Raised("TypeError")
    ELSE Returned(tel_lines(normalize_phone_numbers(numbers.items)))

phone_lines(contact_info) ==
    phone_item_lines(Iterate(GetOr(contact_info, "phone_numbers", JArr(<<>>))))

email_lines(contact_info) == optional_line("EMAIL:", Get(contact_info, "email"))

address_lines(contact_info) == optional_line("ADR:;;", Get(contact_info, "address"))

url_lines(contact_info) == optional_line("URL:", Get(contact_info, "url"))

\* Mutant: the organization is appended before the titles.
ordered_lines_org_first(contact_info, n, t, p) ==
    IF ~n.ok THEN n
    ELSE IF ~t.ok THEN t
    ELSE IF ~p.ok THEN p
    ELSE Returned(<<"BEGIN:VCARD", "VERSION:3.0">>
                  \o n.val
                  \o (IF Truthy(Get(contact_info, "organization"))
                      THEN <<"ORG:" \o Format(Get(contact_info, "organization"))>> ELSE <<>>)
                  \o t.val
                  \o p.val
                  \o (IF Truthy(Get(contact_info, "email"))
                      THEN <<"EMAIL:" \o Format(Get(contact_info, "email"))>> ELSE <<>>)
                  \o (IF Truthy(Get(contact_info, "address"))
                      THEN <<"ADR:;;" \o Format(Get(contact_info, "address"))>> ELSE <<>>)
                  \o (IF Truthy(Get(contact_info, "url"))
                      THEN <<"URL:" \o Format(Get(contact_info, "url"))>> ELSE <<>>)
                  \o <<"END:VCARD">>)

\* The list `lines` in the order the code appends to it; n, t and p are the
\* name, title and phone lines, each of which may have raised instead.
ordered_lines(contact_info, n, t, p) ==
    IF ~n.ok THEN n
    ELSE IF ~t.ok THEN t
    ELSE IF ~p.ok THEN p
    ELSE Returned(<<"BEGIN:VCARD", "VERSION:3.0">>
                  \o n.val
                  \o t.val
                  \o org_lines(contact_info)
                  \o p.val
                  \o email_lines(contact_info)
                  \o address_lines(contact_info)
                  \o url_lines(contact_info)
                  \o <<"END:VCARD">>)

vcf_lines(contact_info) ==
    ordered_lines(contact_info, name_lines(contact_info), title_lines(contact_info),
                  phone_lines(contact_info))

\* return "\n".join(lines)
joined(lines) == IF lines.ok THEN Returned(join("\n", lines.val)) ELSE lines

create_vcf_content(contact_info) == joined(vcf_lines(contact_info))

(***************************************************************************)
(* extract_business_card_info: the part after the call to the model.       *)
(* outcome is what client.chat.completions.create did: Returned(text of    *)
(* the first choice) or Raised(message).                                   *)
(***************************************************************************)
FENCE == BACKTICK \o BACKTICK \o BACKTICK

\* Mutant: the language tag is left in place.
unwrap_fence_keep_tag(content) == strip(strip_chars(content, {BACKTICK}))

\* content = content.strip("`").split("json")[-1].strip()
unwrap_fence(content) == strip(split_last(strip_chars(content, {BACKTICK}), "json"))

\* if content.startswith(FENCE): content = unwrap_fence(content)
unfenced(content) == IF startswith(content, FENCE) THEN unwrap_fence(content) ELSE content

decoded(parsed) == IF parsed.ok THEN Returned(parsed.val) ELSE Raised("JSONDecodeError")

\* The three statements that both deployments share: strip, unwrap a
\* fenced answer, json.loads.
parse_content(text) == decoded(json_loads(unfenced(strip(text))))

PlaceholderRecord ==
    JObj([k \in {"name", "titles", "organization", "phone_numbers", "email", "address", "url"} |->
            CASE k = "name" -> JStr("Unable to parse name")
              [] k = "organization" -> JStr("Unable to parse organization")
              [] k \in {"titles", "phone_numbers"} -> JArr(<<>>)
              [] OTHER -> JStr("")])

\* except json.JSONDecodeError: return the placeholder record
placeholder_on_error(parsed) == IF parsed.ok THEN parsed ELSE Returned(PlaceholderRecord)

\* api/upload.py: a JSONDecodeError becomes the placeholder record, any
\* other exception is raised again as "OpenAI API error: ...".
upload_extract_business_card_info(outcome) ==
    IF ~outcome.ok THEN Raised("OpenAI API error: " \o outcome.exc)
    ELSE placeholder_on_error(parse_content(outcome.val))

\* backend/app.py: no try, so both the call's exception and the
\* JSONDecodeError leave the function.
app_extract_business_card_info(outcome) ==
    IF ~outcome.ok THEN outcome ELSE parse_content(outcome.val)

\* Mutant: the answer is not lowered before the test.
is_card_yes_case_sensitive(text) == startswith(strip(text), "yes")

\* is_card = classification.choices[0].message.content.strip().lower()
\* followed by the test is_card.startswith("yes")
is_card_yes(text) == startswith(lower(strip(text)), "yes")

(***************************************************************************)
(* What a handler writes to the client: response heads (status line and    *)
(* headers, up to end_headers) and bodies, in the order written.           *)
(***************************************************************************)
ResponseHead(status, content_type, disposition) ==
    [status |-> status, content_type |-> content_type, disposition |-> disposition]
JsonBody(v)  == [json |-> v]
VcardBody(t) == [vcard |-> t]
ErrorObject(message) == JObj("error" :> JStr(message))

\* The source's message opens with a cross-mark emoji, left out here.
NotACardMessage ==
    "This doesn't seem like a business card. Please upload a clear business card photo."

(***************************************************************************)
(* POST /generate-vcf.  body is the request body's text.  The result is    *)
(* what is written, whether create_vcf_content was called, and an          *)
(* exception that leaves the handler ("" when none does).                  *)
(***************************************************************************)
Handled(events, calls) == [sent |-> events, serializer_calls |-> calls, uncaught |-> ""]

\* Mutant: only a missing key counts, an empty name passes.
name_key_missing(data) == "name" \notin DOMAIN data

\* `if not data.get("name")`
name_missing(data) == ~Truthy(Get(data, "name"))

\* data.get('name', 'contact').replace(' ', '_').replace('/', '_')
vcf_filename(data) ==
    replace(replace(GetOr(data, "name", JStr("contact")).str, " ", "_"), "/", "_")

\* api/generate-vcf.py, the except clause of do_POST.
generate_vcf_do_POST_except(e, calls) ==
    Handled(<<ResponseHead(500, "application/json", ""), JsonBody(ErrorObject(e))>>, calls)

\* The 200 response: vcf is what create_vcf_content did.
generate_vcf_do_POST_send(data, vcf) ==
    IF ~vcf.ok THEN generate_vcf_do_POST_except(vcf.exc, 1)
    ELSE Handled(<<ResponseHead(200, "text/vcard",
                                "attachment; filename=" \o vcf_filename(data) \o ".vcf"),
                   VcardBody(vcf.val)>>, 1)

\* From the validation of the name on: data is what json.loads did.
generate_vcf_do_POST_decoded(data) ==
    IF ~data.ok THEN generate_vcf_do_POST_except("JSONDecodeError", 0)
    ELSE IF ~IsObj(data.val) THEN generate_vcf_do_POST_except("AttributeError", 0)
    ELSE IF name_missing(data.val.obj)
         THEN Handled(<<ResponseHead(400, "application/json", ""),
                        JsonBody(ErrorObject("Name is required to generate vCard"))>>, 0)
    ELSE generate_vcf_do_POST_send(data.val.obj, create_vcf_content(data.val.obj))

\* api/generate-vcf.py, handler.do_POST
generate_vcf_do_POST(body) == generate_vcf_do_POST_decoded(json_loads(body))

\* backend/app.py, the except clause of generate_vcf.
app_generate_vcf_except(e, calls) ==
    Handled(<<ResponseHead(500, "application/json", ""), JsonBody(ErrorObject(e))>>, calls)

\* The 200 response: vcf is what create_vcf_content did.
app_generate_vcf_send(data, vcf) ==
    IF ~vcf.ok THEN app_generate_vcf_except(vcf.exc, 1)
    ELSE Handled(<<ResponseHead(200, "text/vcard",
                                "attachment; filename=" \o vcf_filename(data) \o ".vcf"),
                   VcardBody(vcf.val)>>, 1)

\* From the validation of the name on: data is what request.json() did.
app_generate_vcf_decoded(data) ==
    IF ~data.ok THEN app_generate_vcf_except("JSONDecodeError", 0)
    ELSE IF ~IsObj(data.val) THEN app_generate_vcf_except("AttributeError", 0)
    ELSE IF name_missing(data.val.obj)
         THEN Handled(<<ResponseHead(400, "application/json", ""),
                        JsonBody(ErrorObject("Name is required to generate vCard"))>>, 0)
    ELSE app_generate_vcf_send(data.val.obj, create_vcf_content(data.val.obj))

\* backend/app.py, generate_vcf
app_generate_vcf(body) == app_generate_vcf_decoded(json_loads(body))

(***************************************************************************)
(* Inputs.                                                                 *)
(***************************************************************************)
SeqsUpTo(S, n) == UNION {[1..k -> S] : k \in 0..n}

StrArr(q) == JArr([i \in 1..Len(q) |-> JStr(q[i])])

\* A dict with the one key, or without it.
Optional(key, values) == {EmptyDict} \cup {key :> v : v \in values}

NameValues    == {"", "John Doe", "Cher"}
TitleValues   == {"CEO", "Head of R&D"}
PhoneValues   == {"01812345678", "12345"}
AddressValues == {"12 Lake Road, Dhaka 1212", "Dhaka\nEMAIL:x@evil.io"}

\* The contact records create_vcf_content is applied to.
ContactRecords ==
    {n @@ t @@ o @@ p @@ e @@ a @@ u :
        n \in Optional("name", {JStr(v) : v \in NameValues}),
        t \in Optional("titles", {StrArr(q) : q \in SeqsUpTo(TitleValues, MaxTitles)}),
        o \in Optional("organization", {JStr("Acme Ltd")}),
        p \in Optional("phone_numbers", {StrArr(q) : q \in SeqsUpTo(PhoneValues, MaxPhones)}),
        e \in Optional("email", {JStr(""), JStr("jd@acme.io")}),
        a \in Optional("address", {JStr(v) : v \in AddressValues}),
        u \in Optional("url", {JStr("https://acme.io")})}

\* The lists normalize_phone_numbers is applied to.
PhoneInputs ==
    {"+8801712345678", "01712345678", "+880 1712-345678", "not-a-phone", "12345",
     "+12025550123", "0171234567", ""}
PhoneLists == SeqsUpTo(PhoneInputs, MaxPhones)

\* Request bodies of POST /generate-vcf.
VcfBodies ==
    {"{\"name\":\"Jane Roe\",\"phone_numbers\":[\"01812345678\"]}",
     "{\"name\":\"John Doe\"}",
     "{\"name\": \"Cher\", \"titles\": [\"CEO\", \"Founder\"], \"organization\": \"Acme\", \"email\": \"c@acme.io\", \"address\": \"Dhaka\", \"url\": \"https://acme.io\"}",
     "{\"name\":\"A/B C\",\"phone_numbers\":[\"not-a-phone\",\"+8801712345678\"]}",
     "{\"name\":\"Eve\",\"address\":\"Dhaka\\nEMAIL:x@evil.io\"}",
     "{\"name\":\"\"}",
     "{\"name\":\"\",\"email\":\"c@acme.io\"}",
     "{\"name\":null,\"titles\":[\"CEO\"]}",
     "{\"titles\":[\"CEO\"],\"organization\":\"Acme\"}",
     "{}",
     "{\"name\":5}",
     "{\"name\":\"Bob\",\"titles\":null}",
     "{\"name\":\"Bob\",\"phone_numbers\":7}",
     "[1]",
     "\"name\"",
     "not json",
     "{\"name\":\"Bob\",}",
     ""}

\* Requests of POST /upload as the serverless handler tells them apart;
\* bad_headers has a Content-Type without boundary=, so that
\* split('boundary=')[1] raises.
UploadRequests == {"bad_headers", "no_image_part", "invalid_image", "undecodable_image", "image"}

\* Requests of POST /upload as the FastAPI handler tells them apart.
AppUploadRequests == {"no_content_type", "not_image", "undecodable_image", "image"}

\* Answers of the model to the classification prompt.
ClassificationTexts ==
    {"yes", "Yes", "YES.", "Yes, clearly a card", "yesterday", " yes\n", "\nYes",
     "no", "No.", "maybe", "ye", "oh yes", ""}

\* JSON object texts, and the same wrapped in a fence tagged json.
JsonObjectTexts ==
    {"{\"name\":\"A\"}",
     "{}",
     " {\n  \"name\": \"Jane Roe\",\n  \"titles\": [\"CEO\"],\n  \"phone_numbers\": [\"01812345678\"]\n}\n",
     "{\"name\":\"^B^\",\"organization\":\"Acme\"}",
     "{\"name\":\"C\",\"email\":\"c@json.org\"}",
     "{\"name\":\"D\",\"url\":\"https://d.io/card.json\",\"address\":\"Dhaka\"}"}

Fenced(J) == FENCE \o "json\n" \o J \o "\n" \o FENCE

\* Answers of the model to the extraction prompt.
ExtractionTexts ==
    JsonObjectTexts
    \cup {Fenced(J) : J \in JsonObjectTexts}
    \cup {"not json", "", "Here is the card: {\"name\":\"A\"}", "{\"name\":\"A\"",
          FENCE \o "\n{\"name\":\"A\"}\n" \o FENCE,
          FENCE \o "json\nnot json\n" \o FENCE}

\* Messages of the exceptions client.chat.completions.create raises.
ApiErrors == {"Connection error."}

(***************************************************************************)
(* State.                                                                  *)
(***************************************************************************)
VARIABLES
    op,               \* the handler or function that runs ("" before)
    pc,               \* "idle", "classifying", "extracting", "done"
    request,          \* its input
    classification,   \* the classification call: [state, text]
    extraction,       \* the extraction call: [state, text]
    class_calls,      \* classification calls issued
    extract_calls,    \* extraction calls issued
    sent,             \* what was written to the client, in order
    uncaught,         \* the exception that left the handler, "" when none
    serializer_calls, \* calls of create_vcf_content by the handler
    result            \* what a function called on its own returned

vars == <<op, pc, request, classification, extraction, class_calls, extract_calls,
          sent, uncaught, serializer_calls, result>>

NoCall == [state |-> "none", text |-> ""]
InFlight == [state |-> "inflight", text |-> ""]
CallReturned(text) == [state |-> "returned", text |-> text]
CallFailed(e) == [state |-> "failed", text |-> e]

Nothing == [none |-> TRUE]

Init ==
    /\ op = ""
    /\ pc = "idle"
    /\ request = Nothing
    /\ classification = NoCall
    /\ extraction = NoCall
    /\ class_calls = 0
    /\ extract_calls = 0
    /\ sent = <<>>
    /\ uncaught = ""
    /\ serializer_calls = 0
    /\ result = Nothing

(***************************************************************************)
(* POST /upload, api/upload.py handler.do_POST.  The 200 head is written   *)
(* first; every later error is written as a body after it.                 *)
(***************************************************************************)
\* Mutant: the outer except clause writes nothing.
upload_do_POST_except_silent(e) == <<>>

\* The outer except clause: a second head (500) and the error body.
upload_do_POST_except(e) ==
    <<ResponseHead(500, "application/json", ""), JsonBody(ErrorObject("Server error: " \o e))>>

\* What is written after the 200 head for a request that does not reach
\* the classification call.
upload_do_POST_rejected(req) ==
    CASE req = "bad_headers"       -> upload_do_POST_except("IndexError")
      [] req = "no_image_part"     -> <<JsonBody(ErrorObject("No image data found"))>>
      [] req = "invalid_image"     -> <<JsonBody(ErrorObject("Invalid image format"))>>
      [] req = "undecodable_image" -> upload_do_POST_except("OSError")

\* Up to the classification call.
upload_do_POST_receive ==
    /\ pc = "idle"
    /\ \E req \in UploadRequests :
        /\ op' = "upload.do_POST"
        /\ request' = [upload |-> req]
        /\ IF req = "image"
           THEN /\ sent' = <<ResponseHead(200, "application/json", "")>>
                /\ classification' = InFlight
                /\ class_calls' = class_calls + 1
                /\ pc' = "classifying"
           ELSE /\ sent' = <<ResponseHead(200, "application/json", "")>>
                           \o upload_do_POST_rejected(req)
                /\ pc' = "done"
                /\ UNCHANGED <<classification, class_calls>>
    /\ UNCHANGED <<extraction, extract_calls, uncaught, serializer_calls, result>>

\* The classification call returns: the gate, then the extraction call.
upload_do_POST_classified ==
    /\ op = "upload.do_POST" /\ pc = "classifying"
    /\ \E text \in ClassificationTexts :
        /\ classification' = CallReturned(text)
        /\ IF ~is_card_yes(text)
           THEN /\ sent' = Append(sent, JsonBody(ErrorObject(NotACardMessage)))
                /\ pc' = "done"
                /\ UNCHANGED <<extraction, extract_calls>>
           ELSE /\ extraction' = InFlight
                /\ extract_calls' = extract_calls + 1
                /\ pc' = "extracting"
                /\ UNCHANGED sent
    /\ UNCHANGED <<op, request, class_calls, uncaught, serializer_calls, result>>

\* Mutant: a failed classification call is issued once more.
upload_do_POST_classification_retried ==
    /\ op = "upload.do_POST" /\ pc = "classifying"
    /\ class_calls < 2
    /\ class_calls' = class_calls + 1
    /\ UNCHANGED <<op, pc, request, classification, extraction, extract_calls, sent, uncaught,
                   serializer_calls, result>>

\* The classification call raises: the inner except clause prints and the
\* handler goes on to the extraction call.
upload_do_POST_classification_failed ==
    /\ op = "upload.do_POST" /\ pc = "classifying"
    /\ \E e \in ApiErrors : classification' = CallFailed(e)
    /\ extraction' = InFlight
    /\ extract_calls' = extract_calls + 1
    /\ pc' = "extracting"
    /\ UNCHANGED <<op, request, class_calls, sent, uncaught, serializer_calls, result>>

\* What the handler writes once extract_business_card_info is through.
upload_do_POST_write(data) ==
    IF data.ok THEN JsonBody(data.val)
    ELSE JsonBody(ErrorObject("Error extracting business card information: " \o data.exc))

upload_do_POST_extraction_body(outcome) ==
    upload_do_POST_write(upload_extract_business_card_info(outcome))

\* The extraction call returns.
upload_do_POST_extracted ==
    /\ op = "upload.do_POST" /\ pc = "extracting"
    /\ \E text \in ExtractionTexts :
        /\ extraction' = CallReturned(text)
        /\ sent' = Append(sent, upload_do_POST_extraction_body(Returned(text)))
    /\ pc' = "done"
    /\ UNCHANGED <<op, request, classification, class_calls, extract_calls, uncaught,
                   serializer_calls, result>>

\* The extraction call raises.
upload_do_POST_extraction_failed ==
    /\ op = "upload.do_POST" /\ pc = "extracting"
    /\ \E e \in ApiErrors :
        /\ extraction' = CallFailed(e)
        /\ sent' = Append(sent, upload_do_POST_extraction_body(Raised(e)))
    /\ pc' = "done"
    /\ UNCHANGED <<op, request, classification, class_calls, extract_calls, uncaught,
                   serializer_calls, result>>

(***************************************************************************)
(* POST /upload, backend/app.py upload_image.  One try around the whole    *)
(* body; whatever the function returns is sent as a 200 JSON response.     *)
(***************************************************************************)
app_response(body) == <<ResponseHead(200, "application/json", ""), JsonBody(body)>>

\* The except clause.
upload_image_except(e) == app_response(ErrorObject("Error processing image: " \o e))

\* The response to a request that does not reach the classification call.
upload_image_rejected(req) ==
    CASE req = "no_content_type"   -> upload_image_except("AttributeError")
      [] req = "not_image"         ->
            app_response(ErrorObject("Please upload a valid image file (JPG, PNG, etc.)"))
      [] req = "undecodable_image" -> upload_image_except("UnidentifiedImageError")

\* Up to the classification call.
upload_image_receive ==
    /\ pc = "idle"
    /\ \E req \in AppUploadRequests :
        /\ op' = "upload_image"
        /\ request' = [upload |-> req]
        /\ IF req = "image"
           THEN /\ classification' = InFlight
                /\ class_calls' = class_calls + 1
                /\ pc' = "classifying"
                /\ UNCHANGED sent
           ELSE /\ sent' = upload_image_rejected(req)
                /\ pc' = "done"
                /\ UNCHANGED <<classification, class_calls>>
    /\ UNCHANGED <<extraction, extract_calls, uncaught, serializer_calls, result>>

\* The classification call returns: the gate, then the extraction call.
upload_image_classified ==
    /\ op = "upload_image" /\ pc = "classifying"
    /\ \E text \in ClassificationTexts :
        /\ classification' = CallReturned(text)
        /\ IF ~is_card_yes(text)
           THEN /\ sent' = app_response(ErrorObject(NotACardMessage))
                /\ pc' = "done"
                /\ UNCHANGED <<extraction, extract_calls>>
           ELSE /\ extraction' = InFlight
                /\ extract_calls' = extract_calls + 1
                /\ pc' = "extracting"
                /\ UNCHANGED sent
    /\ UNCHANGED <<op, request, class_calls, uncaught, serializer_calls, result>>

\* The classification call raises: the call is inside the function's one
\* try, so the except clause answers and extraction is never reached.
upload_image_classification_failed ==
    /\ op = "upload_image" /\ pc = "classifying"
    /\ \E e \in ApiErrors :
        /\ classification' = CallFailed(e)
        /\ sent' = upload_image_except(e)
    /\ pc' = "done"
    /\ UNCHANGED <<op, request, extraction, class_calls, extract_calls, uncaught,
                   serializer_calls, result>>

\* The response once extract_business_card_info is through.
upload_image_return(data) ==
    IF data.ok THEN app_response(data.val) ELSE upload_image_except(data.exc)

upload_image_extraction_response(outcome) ==
    upload_image_return(app_extract_business_card_info(outcome))

\* The extraction call returns.
upload_image_extracted ==
    /\ op = "upload_image" /\ pc = "extracting"
    /\ \E text \in ExtractionTexts :
        /\ extraction' = CallReturned(text)
        /\ sent' = upload_image_extraction_response(Returned(text))
    /\ pc' = "done"
    /\ UNCHANGED <<op, request, classification, class_calls, extract_calls, uncaught,
                   serializer_calls, result>>

\* The extraction call raises.
upload_image_extraction_failed ==
    /\ op = "upload_image" /\ pc = "extracting"
    /\ \E e \in ApiErrors :
        /\ extraction' = CallFailed(e)
        /\ sent' = upload_image_extraction_response(Raised(e))
    /\ pc' = "done"
    /\ UNCHANGED <<op, request, classification, class_calls, extract_calls, uncaught,
                   serializer_calls, result>>

(***************************************************************************)
(* POST /generate-vcf: each handler is one step.                           *)
(***************************************************************************)
\* The handler's result r takes effect.
Respond(r) ==
    /\ sent' = r.sent
    /\ serializer_calls' = r.serializer_calls
    /\ uncaught' = r.uncaught

generate_vcf_do_POST_handle ==
    /\ pc = "idle"
    /\ \E body \in VcfBodies :
        /\ op' = "generate_vcf.do_POST"
        /\ request' = [body |-> body]
        /\ Respond(generate_vcf_do_POST(body))
    /\ pc' = "done"
    /\ UNCHANGED <<classification, extraction, class_calls, extract_calls, result>>

app_generate_vcf_handle ==
    /\ pc = "idle"
    /\ \E body \in VcfBodies :
        /\ op' = "generate_vcf"
        /\ request' = [body |-> body]
        /\ Respond(app_generate_vcf(body))
    /\ pc' = "done"
    /\ UNCHANGED <<classification, extraction, class_calls, extract_calls, result>>

(***************************************************************************)
(* The functions called on their own, as a unit test calls them.           *)
(***************************************************************************)
call_create_vcf_content ==
    /\ pc = "idle"
    /\ \E contact_info \in ContactRecords :
        /\ request' = [contact_info |-> contact_info]
        /\ result' = create_vcf_content(contact_info)
    /\ op' = "create_vcf_content"
    /\ pc' = "done"
    /\ UNCHANGED <<classification, extraction, class_calls, extract_calls, sent, uncaught,
                   serializer_calls>>

call_normalize_phone_numbers ==
    /\ pc = "idle"
    /\ \E numbers \in PhoneLists :
        /\ request' = [numbers |-> numbers]
        /\ result' = Returned(normalize_phone_numbers(StrArr(numbers).arr))
    /\ op' = "normalize_phone_numbers"
    /\ pc' = "done"
    /\ UNCHANGED <<classification, extraction, class_calls, extract_calls, sent, uncaught,
                   serializer_calls>>

\* extract_business_card_info of either deployment with the model's answer
\* given: once a JSON object text as it is, once the same text fenced.
call_extract_business_card_info ==
    /\ pc = "idle"
    /\ \E J \in JsonObjectTexts, deployment \in {"api", "backend"} :
        /\ request' = [text |-> J, deployment |-> deployment]
        /\ result' = IF deployment = "api"
                     THEN [bare   |-> upload_extract_business_card_info(Returned(J)),
                           fenced |-> upload_extract_business_card_info(Returned(Fenced(J)))]
                     ELSE [bare   |-> app_extract_business_card_info(Returned(J)),
                           fenced |-> app_extract_business_card_info(Returned(Fenced(J)))]
    /\ op' = "extract_business_card_info"
    /\ pc' = "done"
    /\ UNCHANGED <<classification, extraction, class_calls, extract_calls, sent, uncaught,
                   serializer_calls>>

(***************************************************************************)
(* Specifications.  Each behaviour is one request or one call: requests    *)
(* share no state.                                                         *)
(***************************************************************************)
Handlers ==
    \/ upload_do_POST_receive
    \/ upload_do_POST_classified
    \/ upload_do_POST_classification_failed
    \/ upload_do_POST_extracted
    \/ upload_do_POST_extraction_failed
    \/ upload_image_receive
    \/ upload_image_classified
    \/ upload_image_classification_failed
    \/ upload_image_extracted
    \/ upload_image_extraction_failed
    \/ generate_vcf_do_POST_handle
    \/ app_generate_vcf_handle

Next ==
    \/ upload_do_POST_receive
    \/ upload_do_POST_classified
    \/ upload_do_POST_classification_failed
    \/ upload_do_POST_extracted
    \/ upload_do_POST_extraction_failed
    \/ upload_image_receive
    \/ upload_image_classified
    \/ upload_image_classification_failed
    \/ upload_image_extracted
    \/ upload_image_extraction_failed
    \/ generate_vcf_do_POST_handle
    \/ app_generate_vcf_handle
    \/ call_create_vcf_content
    \/ call_normalize_phone_numbers
    \/ call_extract_business_card_info

Spec == Init /\ [][Next]_vars

\* A handler runs to its end, and a call to the model returns or raises
\* (the client's own timeout ends a call that hangs).
FairSpec == Init /\ [][Handlers]_vars /\ WF_vars(Handlers)

(***************************************************************************)
(* Vocabulary of the properties.                                           *)
(***************************************************************************)
Done == pc = "done"

UploadHandlers == {"upload.do_POST", "upload_image"}
VcfHandlers    == {"generate_vcf.do_POST", "generate_vcf"}

IsBody(x)      == "json" \in DOMAIN x \/ "vcard" \in DOMAIN x
IsErrorBody(x) == "json" \in DOMAIN x /\ IsObj(x.json) /\ "error" \in DOMAIN x.json.obj

\* A body reached the client.
Answered == \E i \in 1..Len(sent) : IsBody(sent[i])

\* The last thing written.
LastSent == sent[Len(sent)]

\* The lines of a document: its parts between newlines.
LinesOf(text) == split(text, "\n")

\* Some line of L starts with tag.
HasLine(L, tag) == \E i \in 1..Len(L) : startswith(L[i], tag)

\* The texts a JSON value holds: itself, or the strings of a list.
StringsOf(v) ==
    IF IsStr(v) THEN {v.str}
    ELSE IF IsArr(v) THEN {v.arr[i].str : i \in 1..Len(v.arr)}
    ELSE {}

NoNewline(contact_info) ==
    \A k \in DOMAIN contact_info : \A t \in StringsOf(contact_info[k]) : ~Contains(t, "\n")

AbsentOrEmpty(contact_info, key) ==
    key \notin DOMAIN contact_info \/ contact_info[key] \in {JStr(""), JArr(<<>>), JNull}

(***************************************************************************)
(* C1.  Fail-open classification: whenever the classification call fails,  *)
(* the request goes on to the extraction call; the failure is not what     *)
(* the client is answered with.  Stated for every /upload handler.         *)
(***************************************************************************)
C1_FailOpenEveryHandler ==
    (op \in UploadHandlers /\ classification.state = "failed")
        => /\ extraction.state # "none"
           /\ extract_calls = 1

(***************************************************************************)
(* C2.  Fail-soft parsing: whenever the extraction call returns a text     *)
(* that is not JSON after unwrapping, the client receives exactly the      *)
(* placeholder record.  Stated for every /upload handler.                  *)
(***************************************************************************)
C2_FailSoftEveryHandler ==
    (op \in UploadHandlers /\ Done /\ extraction.state = "returned"
        /\ ~parse_content(extraction.text).ok)
        => LastSent = JsonBody(PlaceholderRecord)

(***************************************************************************)
(* C3.  Per request at most one classification call and at most one        *)
(* extraction call are issued, and the extraction call is issued only      *)
(* once the classification call has returned or failed.                    *)
(***************************************************************************)
C3_CallOrdering ==
    /\ class_calls <= 1
    /\ extract_calls <= 1
    /\ classification.state # "none" <=> class_calls = 1
    /\ extraction.state # "none" <=> extract_calls = 1
    /\ extract_calls = 1 => classification.state \in {"returned", "failed"}

C3_Witness ==
    /\ op = "upload.do_POST"
    /\ classification.state = "failed"
    /\ extraction.state = "inflight"
    /\ extract_calls = 1

(***************************************************************************)
(* C4.  The classification gate.  As claimed: extraction is invoked iff    *)
(* the response text begins with "yes", case ignored; otherwise no         *)
(* extraction and an error object.  As the code has it: the same, of the   *)
(* response text with its surrounding whitespace removed.                  *)
(***************************************************************************)
YesSpellings == {"yes", "yeS", "yEs", "yES", "Yes", "YeS", "YEs", "YES"}

BeginsWithYes(text) == \E y \in YesSpellings : startswith(text, y)

GateAgrees(isCard) ==
    /\ isCard <=> extract_calls = 1
    /\ ~isCard => (extract_calls = 0 /\ Done /\ IsErrorBody(LastSent))

\* C4 as claimed: the test is made on the response text as it is.
C4_GateOnRawText ==
    (op \in UploadHandlers /\ classification.state = "returned")
        => GateAgrees(BeginsWithYes(classification.text))

\* C4 amended: the test is made on the text with leading and trailing
\* whitespace removed.
C4_GateOnTrimmedText ==
    (op \in UploadHandlers /\ classification.state = "returned")
        => GateAgrees(BeginsWithYes(strip(classification.text)))

C4_Witness ==
    /\ op = "upload_image"
    /\ classification = CallReturned("\nYes")
    /\ extract_calls = 1

(***************************************************************************)
(* C5.  Every request gets a response: whatever fails, the handler ends    *)
(* with a body written to the client, and no exception leaves it.          *)
(***************************************************************************)
C5_EveryRequestAnswered ==
    /\ [](uncaught = "")
    /\ (pc # "idle") ~> (Done /\ Answered)
    /\ <>(pc # "idle")

C5_Witness ==
    /\ op = "upload.do_POST"
    /\ request = [upload |-> "undecodable_image"]
    /\ Done
    /\ IsErrorBody(LastSent)

(***************************************************************************)
(* C6.  POST /generate-vcf with a JSON object whose name is absent or      *)
(* empty: the response is 400 with the error "Name is required to          *)
(* generate vCard" and create_vcf_content is not called; so every 200      *)
(* text/vcard response holds an N: line and an FN: line.                   *)
(***************************************************************************)
RequestObject == json_loads(request.body).val.obj

RequestIsObject == json_loads(request.body).ok /\ IsObj(json_loads(request.body).val)

C6_NameRequired ==
    (op \in VcfHandlers /\ Done) =>
        /\ (RequestIsObject /\ AbsentOrEmpty(RequestObject, "name")) =>
              /\ sent = <<ResponseHead(400, "application/json", ""),
                          JsonBody(ErrorObject("Name is required to generate vCard"))>>
              /\ serializer_calls = 0
        /\ (sent[1].status = 200 /\ sent[1].content_type = "text/vcard") =>
              /\ Len(sent) = 2
              /\ HasLine(LinesOf(sent[2].vcard), "N:")
              /\ HasLine(LinesOf(sent[2].vcard), "FN:")

C6_Witness ==
    /\ op = "generate_vcf"
    /\ Done
    /\ request.body = "{\"name\":\"\",\"email\":\"c@acme.io\"}"
    /\ sent[1].status = 400
    /\ serializer_calls = 0

(***************************************************************************)
(* C7.  Line order of the serialized document: BEGIN:VCARD, VERSION:3.0    *)
(* first, END:VCARD last, and in between N, FN, TITLE (input order), ORG,  *)
(* TEL;TYPE=CELL (normalized order), EMAIL, ADR, URL.  As claimed: for     *)
(* every record.  As the code has it: for every record none of whose       *)
(* values holds a newline; header and footer for every record.             *)
(***************************************************************************)
Rank(line) ==
    CASE startswith(line, "N:")             -> 1
      [] startswith(line, "FN:")            -> 2
      [] startswith(line, "TITLE:")         -> 3
      [] startswith(line, "ORG:")           -> 4
      [] startswith(line, "TEL;TYPE=CELL:") -> 5
      [] startswith(line, "EMAIL:")         -> 6
      [] startswith(line, "ADR:")           -> 7
      [] startswith(line, "URL:")           -> 8
      [] OTHER                              -> 0

IsTitleLine(line) == startswith(line, "TITLE:")
IsTelLine(line)   == startswith(line, "TEL;TYPE=CELL:")

HeaderAndFooter(L) ==
    /\ Len(L) >= 3
    /\ L[1] = "BEGIN:VCARD"
    /\ L[2] = "VERSION:3.0"
    /\ L[Len(L)] = "END:VCARD"

RanksOf(L) == [i \in 1..Len(L) |-> Rank(L[i])]

\* R holds the ranks of the lines: between header and footer every line
\* has a tag, the tags never step back, and only TITLE and TEL repeat.
TagsInOrder(R) ==
    /\ \A i \in 3..(Len(R) - 1) : R[i] # 0
    /\ \A i \in 3..(Len(R) - 2) : R[i] <= R[i + 1] /\ (R[i] = R[i + 1] => R[i] \in {3, 5})

InFixedOrder(contact_info, L) ==
    /\ HeaderAndFooter(L)
    /\ TagsInOrder(RanksOf(L))
    /\ SelectSeq(L, IsTitleLine) =
          title_item_lines(Iterate(GetOr(contact_info, "titles", JArr(<<>>)))).val
    /\ SelectSeq(L, IsTelLine) =
          tel_lines(normalize_phone_numbers(
                       Iterate(GetOr(contact_info, "phone_numbers", JArr(<<>>))).items))

\* C7 as claimed: for every contact record.
C7_LineOrderEveryRecord ==
    (op = "create_vcf_content" /\ Done /\ result.ok)
        => InFixedOrder(request.contact_info, LinesOf(result.val))

\* C7 amended: the order of the lines in between is claimed of the records
\* without a newline in any value.
C7_LineOrder ==
    (op = "create_vcf_content" /\ Done)
        => /\ result.ok
           /\ IF NoNewline(request.contact_info)
              THEN InFixedOrder(request.contact_info, LinesOf(result.val))
              ELSE HeaderAndFooter(LinesOf(result.val))

C7_Witness ==
    /\ op = "create_vcf_content"
    /\ Done
    /\ DOMAIN request.contact_info =
          {"name", "titles", "organization", "phone_numbers", "email", "address", "url"}
    /\ request.contact_info["titles"] = StrArr(<<"Head of R&D", "CEO">>)
    /\ request.contact_info["phone_numbers"] = StrArr(<<"12345", "01812345678">>)
    /\ request.contact_info["email"] = JStr("jd@acme.io")
    /\ request.contact_info["address"] = JStr("12 Lake Road, Dhaka 1212")
    /\ request.contact_info["name"] = JStr("John Doe")
    /\ Len(LinesOf(result.val)) = 12

(***************************************************************************)
(* C8.  An absent or empty field produces no line: no line of the          *)
(* document starts with the tag of such a field.  As claimed: whatever     *)
(* the values of the other fields.  As the code has it: provided no value  *)
(* of the record holds a newline.                                          *)
(***************************************************************************)
TagsOf(key) ==
    CASE key = "name"          -> {"N:", "FN:"}
      [] key = "titles"        -> {"TITLE:"}
      [] key = "organization"  -> {"ORG:"}
      [] key = "phone_numbers" -> {"TEL;TYPE=CELL:", "TEL"}
      [] key = "email"         -> {"EMAIL:"}
      [] key = "address"       -> {"ADR:"}
      [] key = "url"           -> {"URL:"}

FieldKeys == {"name", "titles", "organization", "phone_numbers", "email", "address", "url"}

NoLineOfAbsentField(contact_info, L) ==
    \A key \in FieldKeys :
        AbsentOrEmpty(contact_info, key) => \A tag \in TagsOf(key) : ~HasLine(L, tag)

\* C8 as claimed: whatever the other fields hold.
C8_NoLineEveryRecord ==
    (op = "create_vcf_content" /\ Done /\ result.ok)
        => NoLineOfAbsentField(request.contact_info, LinesOf(result.val))

\* C8 amended: of the records without a newline in any value.
C8_NoLineForAbsentField ==
    (op = "create_vcf_content" /\ Done /\ NoNewline(request.contact_info))
        => /\ result.ok
           /\ NoLineOfAbsentField(request.contact_info, LinesOf(result.val))

C8_Witness ==
    /\ op = "create_vcf_content"
    /\ Done
    /\ request.contact_info =
          ("name" :> JStr("Cher") @@ "email" :> JStr("") @@ "titles" :> JArr(<<>>)
           @@ "address" :> JStr("12 Lake Road, Dhaka 1212"))
    /\ result.val = "BEGIN:VCARD\nVERSION:3.0\nN:;Cher;;;\nFN:Cher\nADR:;;12 Lake Road, Dhaka 1212\nEND:VCARD"

(***************************************************************************)
(* C9.  Fence unwrapping is transparent: a JSON object text J wrapped in   *)
(* a fence tagged json parses to the same record as J itself.  As          *)
(* claimed: for every J.  As the code has it: for every J in which the     *)
(* text json does not occur.                                               *)
(***************************************************************************)
\* C9 as claimed: for every JSON object text.
C9_FenceTransparentEveryText ==
    (op = "extract_business_card_info" /\ Done) => result.fenced = result.bare

\* C9 amended: for the JSON object texts that do not contain "json".
C9_FenceTransparent ==
    (op = "extract_business_card_info" /\ Done /\ ~Contains(request.text, "json"))
        => /\ result.bare = Returned(json_loads(request.text).val)
           /\ result.fenced = result.bare

C9_Witness ==
    /\ op = "extract_business_card_info"
    /\ Done
    /\ request.text = "{\"name\":\"^B^\",\"organization\":\"Acme\"}"
    /\ result.fenced = Returned(JObj("name" :> JStr("^B^") @@ "organization" :> JStr("Acme")))

(***************************************************************************)
(* C10.  normalize_phone_numbers returns, for every list of strings, the   *)
(* E.164 formats of the entries that parse and are valid, in their         *)
(* order; the result is never longer than the list.                        *)
(***************************************************************************)
Survives(num) ==
    /\ phonenumbers_parse(num, "BD").ok
    /\ phonenumbers_is_valid_number(phonenumbers_parse(num, "BD").val)

E164Of(num) == phonenumbers_format_E164(phonenumbers_parse(num, "BD").val)

Survivors(numbers) == SelectSeq(numbers, Survives)

C10_NormalizerOmits ==
    (op = "normalize_phone_numbers" /\ Done)
        => /\ result.ok
           /\ Len(result.val) <= Len(request.numbers)
           /\ result.val = [i \in 1..Len(Survivors(request.numbers)) |->
                               E164Of(Survivors(request.numbers)[i])]

C10_Witness ==
    /\ op = "normalize_phone_numbers"
    /\ Done
    /\ request.numbers = <<"12345", "01712345678">>
    /\ result.val = <<"+8801712345678">>

(***************************************************************************)
(* C11.  Single status per response: a do_POST handler of api/ writes the  *)
(* status line and headers once, before any body; no second status is      *)
(* written after the 200 one.                                              *)
(***************************************************************************)
ApiHandlers == {"upload.do_POST", "generate_vcf.do_POST"}

IsHead(x) == "status" \in DOMAIN x

HeadsSent == {i \in 1..Len(sent) : IsHead(sent[i])}

C11_SingleStatus ==
    (op \in ApiHandlers /\ sent # <<>>)
        => /\ HeadsSent = {1}
           /\ \A i \in 2..Len(sent) : IsBody(sent[i])

====
